---- MODULE Spec2Model ----
(***************************************************************************)
(* A model of src/app.py, the MicroscopyDashboard: one session of the      *)
(* dashboard, its widgets and data sources, and the callbacks the Bokeh    *)
(* server dispatches one at a time (file upload, frame slider, contrast    *)
(* slider, ROI toggle, ROI box selection).                                 *)
(*                                                                         *)
(* Conventions.                                                            *)
(*  - A Python value that may be None or an empty list is an option:       *)
(*    << >> for None / [], <<v>> for a value.                              *)
(*  - An ndarray is [dtype, fill, shape, values].  An array whose elements *)
(*    are all equal is kept as fill = {v}, values = << >>; any other array *)
(*    has fill = {} and values = a function from its index tuples          *)
(*    (0-based, as in numpy) to its elements.  Both forms denote arrays    *)
(*    element by element; every array is built in this canonical form.     *)
(*  - An element of an integer array is an integer kept in the width of    *)
(*    its dtype.  An element of a float array is a reduced fraction        *)
(*    <<num, den>> with den > 0, and <<0, 0>> is nan.                      *)
(*  - A handler is an operator from the session state (a record of all the *)
(*    variables) to the session state it leaves; an exception that leaves  *)
(*    the handler is recorded in the field uncaught.                       *)
(***************************************************************************)
EXTENDS Integers, Sequences, FiniteSets, TLC

VARIABLES
    current_stack,    \* self.current_stack: option of a rank-3 ndarray
    metadata,         \* self.metadata: dict from key to string
    image_source,     \* self.image_source.data: [image, dw, dh]
    roi_source,       \* self.roi_source.data: option of [x, y, width, height]
    roi_stats_source, \* self.roi_stats_source.data['value']
    roi_view_source,  \* self.roi_image_renderer.data_source.data: option
    roi_box,          \* self.roi_box: [visible, edges]
    roi_toggle,       \* self.roi_toggle.active
    active_drag,      \* self.main_plot.toolbar.active_drag
    frame_slider,     \* self.frame_slider: [start, end, value, visible]
    contrast_slider,  \* self.contrast_slider.value, in tenths
    file_input,       \* self.file_input.value: the last payload received
    metadata_div,     \* self.metadata_div.text
    roi_locals,       \* x0, y0, width, height of the last update_roi_view
                      \* that sliced a frame: option
    uncaught          \* the exception that left the last callback, or "none"

vars == <<current_stack, metadata, image_source, roi_source, roi_stats_source,
          roi_view_source, roi_box, roi_toggle, active_drag, frame_slider,
          contrast_slider, file_input, metadata_div, roi_locals, uncaught>>

(***************************************************************************)
(* Bounds of the model.                                                    *)
(***************************************************************************)
\* the longest stack an upload decodes to
MaxFrames == 2

(***************************************************************************)
(* Options: None and empty lists.                                          *)
(***************************************************************************)
None == << >>
Some(v) == <<v>>
IsNone(o) == o = << >>
Get(o) == o[1]

(***************************************************************************)
(* Floats, as exact fractions with nan.                                    *)
(***************************************************************************)
Abs(n) == IF n < 0 THEN -n ELSE n

RECURSIVE Gcd(_, _)
Gcd(a, b) == IF b = 0 THEN a ELSE Gcd(b, a % b)

NaN == <<0, 0>>

Float(n, d) ==
    IF d = 0 THEN NaN
    ELSE LET g == Gcd(Abs(n), Abs(d))
             s == IF d < 0 THEN -1 ELSE 1
         IN  <<(s * n) \div g, (s * d) \div g>>

IsNaN(q) == q[2] = 0
FloatOfInt(v) == <<v, 1>>
FloatEq(a, b) == ~IsNaN(a) /\ ~IsNaN(b) /\ a = b
FloatLt(a, b) == ~IsNaN(a) /\ ~IsNaN(b) /\ a[1] * b[2] < b[1] * a[2]
FloatLe(a, b) == FloatEq(a, b) \/ FloatLt(a, b)
FloatAdd(a, b) ==
    IF IsNaN(a) \/ IsNaN(b) THEN NaN
    ELSE Float(a[1] * b[2] + b[1] * a[2], a[2] * b[2])
FloatSub(a, b) ==
    IF IsNaN(a) \/ IsNaN(b) THEN NaN
    ELSE Float(a[1] * b[2] - b[1] * a[2], a[2] * b[2])
FloatMul(a, b) ==
    IF IsNaN(a) \/ IsNaN(b) THEN NaN ELSE Float(a[1] * b[1], a[2] * b[2])
\* numpy: x / 0.0 is inf or nan and never raises; the model's divisors are
\* never zero where the code divides floats, so inf is not represented
FloatDiv(a, b) ==
    IF IsNaN(a) \/ IsNaN(b) THEN NaN ELSE Float(a[1] * b[2], a[2] * b[1])

(***************************************************************************)
(* Integer sample types.                                                   *)
(***************************************************************************)
IsFloatType(dtype) == dtype = "float64"
Bits(dtype) == IF dtype = "uint16" THEN 16 ELSE 8
Signed(dtype) == dtype = "int8"

RECURSIVE Pow2(_)
Pow2(n) == IF n = 0 THEN 1 ELSE 2 * Pow2(n - 1)

\* arithmetic of a numpy integer type: the result modulo 2^w
Wrap(v, dtype) ==
    LET m == Pow2(Bits(dtype))
        u == v % m
    IN  IF Signed(dtype) /\ u >= m \div 2 THEN u - m ELSE u

(***************************************************************************)
(* ndarrays.                                                               *)
(***************************************************************************)
RECURSIVE Indices(_)
Indices(shape) ==
    IF shape = << >> THEN {<< >>}
    ELSE {<<i>> \o t : i \in 0..(shape[1] - 1), t \in Indices(Tail(shape))}

RECURSIVE Size(_)
Size(shape) == IF shape = << >> THEN 1 ELSE shape[1] * Size(Tail(shape))

Ndim(a) == Len(a.shape)

\* an array of one repeated value (np.zeros, np.zeros_like)
Full(dtype, shape, v) ==
    [dtype |-> dtype, fill |-> IF Size(shape) = 0 THEN {} ELSE {v},
     shape |-> shape, values |-> << >>]

\* the array of the given shape whose elements are those of the function f
\* from Indices(shape), in canonical form
MkArray(dtype, shape, f) ==
    LET vals == {f[p] : p \in DOMAIN f}
    IN  IF Cardinality(vals) = 1
        THEN Full(dtype, shape, CHOOSE v \in vals : TRUE)
        ELSE [dtype |-> dtype, fill |-> {}, shape |-> shape, values |-> f]

IsUniform(a) == a.fill # {}
FillValue(a) == CHOOSE v \in a.fill : TRUE

At(a, p) == IF IsUniform(a) THEN FillValue(a) ELSE a.values[p]

\* the set of the elements of an array
Elements(a) ==
    IF IsUniform(a) THEN a.fill ELSE {a.values[p] : p \in DOMAIN a.values}

\* an elementwise operation: g maps each element of a to its image
MapArray(a, dtype, g) ==
    IF IsUniform(a) THEN Full(dtype, a.shape, g[FillValue(a)])
    ELSE MkArray(dtype, a.shape, [p \in DOMAIN a.values |-> g[a.values[p]]])

\* np.array([stack]): a new leading axis of length 1
WrapSingle(a) ==
    IF IsUniform(a) THEN Full(a.dtype, <<1>> \o a.shape, FillValue(a))
    ELSE MkArray(a.dtype, <<1>> \o a.shape,
                 [p \in Indices(<<1>> \o a.shape) |-> a.values[Tail(p)]])

\* len(a)
PyLen(a) == a.shape[1]

\* whether a[k] is an element: Python takes -len..len-1 and raises
\* IndexError otherwise
IndexInRange(a, k) == -PyLen(a) <= k /\ k < PyLen(a)

\* a[k] for an index in range; a negative index counts from the end
Index(a, k) ==
    LET kk == IF k < 0 THEN k + PyLen(a) ELSE k
    IN  IF IsUniform(a) THEN Full(a.dtype, Tail(a.shape), FillValue(a))
        ELSE MkArray(a.dtype, Tail(a.shape),
                     [p \in Indices(Tail(a.shape)) |-> a.values[<<kk>> \o p]])

\* the bounds of the Python slice start:stop on an axis of length n
SliceLo(start, n) ==
    IF start < 0 THEN (IF start + n < 0 THEN 0 ELSE start + n)
    ELSE IF start > n THEN n ELSE start
SliceLen(start, stop, n) ==
    LET lo == SliceLo(start, n)
        hi == SliceLo(stop, n)
    IN  IF hi > lo THEN hi - lo ELSE 0

\* frame[r0:r1, c0:c1]
Slice2(a, r0, r1, c0, c1) ==
    LET h  == SliceLen(r0, r1, a.shape[1])
        w  == SliceLen(c0, c1, a.shape[2])
        rl == SliceLo(r0, a.shape[1])
        cl == SliceLo(c0, a.shape[2])
    IN  IF IsUniform(a) THEN Full(a.dtype, <<h, w>>, FillValue(a))
        ELSE MkArray(a.dtype, <<h, w>>,
                     [p \in Indices(<<h, w>>) |-> a.values[<<rl + p[1], cl + p[2]>>]])

\* a.min() and a.max() of a non-empty array; nan propagates
ArrayMin(a) ==
    LET e == Elements(a)
    IN  IF IsFloatType(a.dtype)
        THEN IF \E v \in e : IsNaN(v) THEN NaN
             ELSE CHOOSE v \in e : \A u \in e : FloatLe(v, u)
        ELSE CHOOSE v \in e : \A u \in e : v <= u
ArrayMax(a) ==
    LET e == Elements(a)
    IN  IF IsFloatType(a.dtype)
        THEN IF \E v \in e : IsNaN(v) THEN NaN
             ELSE CHOOSE v \in e : \A u \in e : FloatLe(u, v)
        ELSE CHOOSE v \in e : \A u \in e : u <= v

(***************************************************************************)
(* The session state as one record, and the state after __init__.         *)
(***************************************************************************)
State ==
    [current_stack |-> current_stack, metadata |-> metadata,
     image_source |-> image_source, roi_source |-> roi_source,
     roi_stats_source |-> roi_stats_source, roi_view_source |-> roi_view_source,
     roi_box |-> roi_box, roi_toggle |-> roi_toggle, active_drag |-> active_drag,
     frame_slider |-> frame_slider, contrast_slider |-> contrast_slider,
     file_input |-> file_input, metadata_div |-> metadata_div,
     roi_locals |-> roi_locals, uncaught |-> "none"]

\* the side of the placeholder image
EmptyDim == 512

\* self.empty_image = np.zeros((512, 512), dtype=np.uint16)
empty_image == Full("uint16", <<EmptyDim, EmptyDim>>, 0)

(***************************************************************************)
(* update_image_source: the frame normalizer.                              *)
(***************************************************************************)
\* (frame - f_min) / (f_max - f_min): integer samples are subtracted in the
\* width of their type and divided as floats
NormalizedValue(v, f_min, f_max, dtype) ==
    IF IsFloatType(dtype)
    THEN FloatDiv(FloatSub(v, f_min), FloatSub(f_max, f_min))
    ELSE Float(Wrap(v - f_min, dtype), Wrap(f_max - f_min, dtype))

\* the normalizer without the branch for f_max == f_min
Normalize_NoUniformGuard(frame) ==
    MapArray(frame, "float64",
             [v \in Elements(frame) |->
                 NormalizedValue(v, ArrayMin(frame), ArrayMax(frame),
                                 frame.dtype)])

Normalize(frame) ==
    LET f_min == ArrayMin(frame)
        f_max == ArrayMax(frame)
        same  == IF IsFloatType(frame.dtype) THEN FloatEq(f_max, f_min)
                 ELSE f_max = f_min
    IN  IF same
        THEN Full("float64", frame.shape, FloatOfInt(0))
        ELSE MapArray(frame, "float64",
                      [v \in Elements(frame) |->
                          NormalizedValue(v, f_min, f_max, frame.dtype)])

update_image_source(s, frame) ==
    IF Size(frame.shape) = 0
    THEN [s EXCEPT !.uncaught = "ValueError"]  \* min of a zero-size array
    ELSE [s EXCEPT !.image_source =
             [image |-> Normalize(frame), dw |-> frame.shape[2],
              dh |-> frame.shape[1]]]

(***************************************************************************)
(* update_frame.                                                           *)
(***************************************************************************)
\* update_frame without the lower bound of its range check
update_frame_body_NoLowerBound(s, new) ==
    IF ~IsNone(s.current_stack) /\ PyLen(Get(s.current_stack)) > 0
    THEN IF new >= PyLen(Get(s.current_stack)) \/ ~IndexInRange(Get(s.current_stack), new)
         THEN s
         ELSE update_image_source(s, Index(Get(s.current_stack), new))
    ELSE update_image_source(s, empty_image)

update_frame_body(s, new) ==
    IF ~IsNone(s.current_stack) /\ PyLen(Get(s.current_stack)) > 0
    THEN IF new < 0 \/ new >= PyLen(Get(s.current_stack))
         THEN s
         ELSE update_image_source(s, Index(Get(s.current_stack), new))
    ELSE update_image_source(s, empty_image)

\* update_frame that leaves the display as it is
update_frame_NoDisplay(s, new) == [s EXCEPT !.uncaught = "none"]

\* try: ... except Exception: print
update_frame(s, new) == [update_frame_body(s, new) EXCEPT !.uncaught = "none"]

(***************************************************************************)
(* update_contrast.                                                        *)
(***************************************************************************)
RECURSIVE IntPow(_, _)
IntPow(b, n) == IF n = 0 THEN 1 ELSE b * IntPow(b, n - 1)

\* the q-th root of a perfect q-th power v >= 0
IntRoot(v, q) == IF q = 1 THEN v ELSE CHOOSE r \in 0..v : IntPow(r, q) = v

\* v ** (1/new) for an integer sample v and new = g10/10 > 0, as a float:
\* the exponent is 10/g10 = p/q in lowest terms
PowerValue(v, g10) ==
    LET e == Float(10, g10)
    IN  IF v < 0 /\ e[2] # 1 THEN NaN
        ELSE IF v < 0 THEN FloatOfInt(IntPow(v, e[1]))
        ELSE FloatOfInt(IntPow(IntRoot(v, e[2]), e[1]))

\* np.power(frame, 1/new)
Power(frame, g10) ==
    MapArray(frame, "float64",
             [v \in Elements(frame) |-> PowerValue(v, g10)])

\* update_contrast that keeps the frame it shows as the stack
update_contrast_OverwritesStack(s, new) ==
    IF IsNone(s.current_stack) THEN s
    ELSE IF ~IndexInRange(Get(s.current_stack), s.frame_slider.value)
    THEN [s EXCEPT !.uncaught = "IndexError"]
    ELSE IF new = 0
    THEN [s EXCEPT !.uncaught = "ZeroDivisionError"]
    ELSE LET frame == Index(Get(s.current_stack), s.frame_slider.value)
         IN  update_image_source(
                 [s EXCEPT !.current_stack = Some(WrapSingle(frame))],
                 Power(frame, new))

update_contrast(s, new) ==
    IF IsNone(s.current_stack) THEN s
    ELSE IF ~IndexInRange(Get(s.current_stack), s.frame_slider.value)
    THEN [s EXCEPT !.uncaught = "IndexError"]
    ELSE IF new = 0
    THEN [s EXCEPT !.uncaught = "ZeroDivisionError"]
    ELSE update_image_source(
             s, Power(Index(Get(s.current_stack), s.frame_slider.value), new))

(***************************************************************************)
(* update_metadata_display.                                                *)
(***************************************************************************)
basic_props == <<"Dimensions", "Data Type", "Value Range">>

\* the keys of the model's metadata tables in sorted() order
SortedKeys ==
    <<"Data Type", "Dimensions", "ImageLength", "ImageWidth", "Value Range">>

IsBasic(k) == \E i \in 1..Len(basic_props) : basic_props[i] = k

RECURSIVE Rows(_, _)
Rows(keys, d) ==
    IF keys = << >> THEN << >>
    ELSE <<<<Head(keys), d[Head(keys)]>>>> \o Rows(Tail(keys), d)

NoFileLoaded == [kind |-> "No file loaded", basic |-> << >>, tiff |-> << >>]

update_metadata_display(s) ==
    IF DOMAIN s.metadata = {}
    THEN [s EXCEPT !.metadata_div = NoFileLoaded]
    ELSE [s EXCEPT !.metadata_div =
             [kind  |-> "table",
              basic |-> Rows(SelectSeq(basic_props,
                                       LAMBDA k : k \in DOMAIN s.metadata),
                             s.metadata),
              tiff  |-> Rows(SelectSeq(SortedKeys,
                                       LAMBDA k : k \in DOMAIN s.metadata
                                                  /\ ~IsBasic(k)),
                             s.metadata)]]

(***************************************************************************)
(* Uploaded payloads.  The value of the FileInput is a string: "" or       *)
(* comma-separated parts.  A part is base64 text, valid or not; valid      *)
(* text decodes to a byte buffer, which holds a TIFF (its pixel array and  *)
(* the tags of its first page) or something else.                          *)
(***************************************************************************)
NotTiff == [page |-> None]
Tiff(array, tags) == [page |-> Some([array |-> array, tags |-> tags])]

\* base64 text that decodes to the buffer b
B64(b) == [valid |-> TRUE, bytes |-> b]
\* text that base64.b64decode rejects (binascii.Error)
BadB64 == [valid |-> FALSE, bytes |-> NotTiff]
\* the "data:...;base64" prefix of a data URI: it is never decoded
UriHeader == [valid |-> FALSE, bytes |-> NotTiff]

EmptyPayload == << >>
Raw(part) == <<part>>
DataUri(part) == <<UriHeader, part>>

\* the tags tifffile reports for the first page of an image h x w
PageTags(h, w) == [k \in {"ImageLength", "ImageWidth"} |->
                      IF k = "ImageLength" THEN h ELSE w]

\* a 2 x 3 image of uint16 samples
SamplesA == <<0, 1, 4>>
ImageA ==
    MkArray("uint16", <<2, 3>>,
            [p \in Indices(<<2, 3>>) |-> SamplesA[((p[1] + p[2]) % 3) + 1]])

\* stacks of n frames 2 x 3 of int8 samples
SamplesB == <<-100, 0, 100>>
StackB(n) ==
    MkArray("int8", <<n, 2, 3>>,
            [p \in Indices(<<n, 2, 3>>) |->
                SamplesB[((p[1] + p[2] + p[3]) % 3) + 1]])

\* a 100 x 100 image of one uint16 value
ImageC == Full("uint16", <<100, 100>>, 4)

\* arrays of ranks the viewer does not take
Rank1 == Full("uint16", <<3>>, 1)
Rank4 == Full("uint16", <<1, 1, 2, 3>>, 1)

Payloads ==
    {EmptyPayload, Raw(BadB64), DataUri(B64(NotTiff)),
     Raw(B64(Tiff(ImageA, PageTags(2, 3)))),
     DataUri(B64(Tiff(ImageC, PageTags(100, 100)))),
     Raw(B64(Tiff(Rank1, PageTags(1, 3)))),
     DataUri(B64(Tiff(Rank4, PageTags(2, 3))))}
    \cup {DataUri(B64(Tiff(StackB(n), PageTags(2, 3)))) : n \in 2..MaxFrames}

(***************************************************************************)
(* handle_file_upload.                                                     *)
(***************************************************************************)
\* the part that is base64-decoded
EncodedPart(new) == IF Len(new) = 1 THEN new[1] ELSE new[2]

\* whether the payload decodes to a pixel array (lines 279-291)
Parses(new) ==
    /\ new # EmptyPayload
    /\ EncodedPart(new).valid
    /\ ~IsNone(EncodedPart(new).bytes.page)

DecodedArray(new) == Get(EncodedPart(new).bytes.page).array
DecodedTags(new) == Get(EncodedPart(new).bytes.page).tags

\* f"{...}": the text of a value
Fmt(kind, v) == <<kind, v>>

\* lines 295-307 without line 300: no "Value Range" entry
ExtractMetadata_NoValueRange(stack, tags) ==
    [k \in {"Dimensions", "Data Type"} \cup DOMAIN tags |->
        IF k \in DOMAIN tags THEN Fmt("str", tags[k])
        ELSE IF k = "Dimensions" THEN Fmt("shape", stack.shape)
        ELSE Fmt("dtype", stack.dtype)]

\* self.metadata after lines 295-307
ExtractMetadata(stack, tags) ==
    [k \in {"Dimensions", "Data Type", "Value Range"} \cup DOMAIN tags |->
        IF k \in DOMAIN tags THEN Fmt("str", tags[k])
        ELSE IF k = "Dimensions" THEN Fmt("shape", stack.shape)
        ELSE IF k = "Data Type" THEN Fmt("dtype", stack.dtype)
        ELSE Fmt("range", <<ArrayMin(stack), ArrayMax(stack)>>)]

\* lines 317-325
UpdateSliderRange(s) ==
    LET num_frames == PyLen(Get(s.current_stack))
    IN  IF num_frames > 1
        THEN LET t == [s EXCEPT !.frame_slider =
                         [start |-> 0, end |-> num_frames - 1, value |-> 0,
                          visible |-> TRUE]]
             \* the slider's on_change callback runs when the value changes
             IN  IF s.frame_slider.value # 0 THEN update_frame(t, 0) ELSE t
        ELSE [s EXCEPT !.frame_slider.visible = FALSE]

\* the try block, lines 276-331; uncaught holds the exception it raises
UploadTry(s, new) ==
    IF ~EncodedPart(new).valid
    THEN [s EXCEPT !.uncaught = "binascii.Error"]
    ELSE IF IsNone(EncodedPart(new).bytes.page)
    THEN [s EXCEPT !.uncaught = "TiffFileError"]
    ELSE LET stack == DecodedArray(new)
             s1 == [s EXCEPT !.metadata =
                       ExtractMetadata(stack, DecodedTags(new))]
         IN  IF Ndim(stack) = 2
             THEN update_metadata_display(update_frame(UpdateSliderRange(
                      [s1 EXCEPT !.current_stack = Some(WrapSingle(stack))]), 0))
             ELSE IF Ndim(stack) = 3
             THEN update_metadata_display(update_frame(UpdateSliderRange(
                      [s1 EXCEPT !.current_stack = Some(stack)]), 0))
             ELSE [s1 EXCEPT !.uncaught = "ValueError"]

\* the except block without self.metadata = {}
UploadExcept_KeepsMetadata(s) ==
    update_metadata_display(
        [update_image_source(
            [s EXCEPT !.uncaught = "none", !.current_stack = None],
            empty_image)
         EXCEPT !.frame_slider.visible = FALSE])

\* the except block, lines 333-343
UploadExcept(s) ==
    update_metadata_display(
        [update_image_source(
            [s EXCEPT !.uncaught = "none", !.current_stack = None,
                      !.metadata = << >>],
            empty_image)
         EXCEPT !.frame_slider.visible = FALSE])

\* handle_file_upload without "if new:": an empty payload is decoded to an
\* empty buffer, which is no TIFF
handle_file_upload_NoEmptyGuard(s, new) ==
    IF new = EmptyPayload
    THEN UploadExcept([s EXCEPT !.uncaught = "TiffFileError"])
    ELSE LET t == UploadTry(s, new)
         IN  IF t.uncaught = "none" THEN t ELSE UploadExcept(t)

handle_file_upload(s, new) ==
    IF new = EmptyPayload THEN s
    ELSE LET t == UploadTry(s, new)
         IN  IF t.uncaught = "none" THEN t ELSE UploadExcept(t)

(***************************************************************************)
(* toggle_roi.                                                             *)
(***************************************************************************)
toggle_roi(s, new) ==
    IF new
    THEN [s EXCEPT !.roi_box.visible = TRUE, !.active_drag = "box_select"]
    ELSE [s EXCEPT !.roi_box.visible = FALSE, !.active_drag = "None"]

(***************************************************************************)
(* update_roi, update_roi_view, update_roi_stats.                          *)
(***************************************************************************)
\* int(x): truncation toward zero
IntTrunc(q) == IF q[1] >= 0 THEN q[1] \div q[2] ELSE -((-q[1]) \div q[2])

\* max(a, b) and min(a, b) of Python: the first argument unless the second
\* is greater (smaller)
PyMax(a, b) == IF FloatLt(a, b) THEN b ELSE a
PyMin(a, b) == IF FloatLt(b, a) THEN b ELSE a

\* lines 181-184 and 203-206: the rectangle the frame is sliced with
ClampedRect(stack, r) ==
    LET x0 == IntTrunc(PyMax(FloatOfInt(0), r.x))
        y0 == IntTrunc(PyMax(FloatOfInt(0), r.y))
    IN  [x0 |-> x0, y0 |-> y0,
         width  |-> IntTrunc(PyMin(FloatOfInt(stack.shape[3] - x0), r.width)),
         height |-> IntTrunc(PyMin(FloatOfInt(stack.shape[2] - y0), r.height))]

\* lines 188 and 210: frame[y0:y0+height, x0:x0+width]
ExtractRoi(frame, c) ==
    Slice2(frame, c.y0, c.y0 + c.height, c.x0, c.x0 + c.width)

\* whether self.roi_plot, a bokeh figure, has an attribute image_renderer:
\* the renderer of the ROI view is kept as self.roi_image_renderer (line 94)
RoiPlotHasImageRenderer == FALSE

update_roi_view(s) ==
    IF IsNone(s.current_stack) \/ IsNone(s.roi_source) THEN s
    ELSE LET stack == Get(s.current_stack)
             c == ClampedRect(stack, Get(s.roi_source))
         IN  IF ~IndexInRange(stack, s.frame_slider.value)
             THEN [s EXCEPT !.uncaught = "IndexError"]
             ELSE LET roi == ExtractRoi(Index(stack, s.frame_slider.value), c)
                      s1 == [s EXCEPT !.roi_locals =
                                Some([x0 |-> c.x0, y0 |-> c.y0,
                                      width |-> c.width, height |-> c.height])]
                  IN  IF RoiPlotHasImageRenderer
                      THEN [s1 EXCEPT !.roi_view_source =
                               Some([image |-> roi, dw |-> c.width,
                                     dh |-> c.height])]
                      ELSE [s1 EXCEPT !.uncaught = "AttributeError"]

RECURSIVE SumOver(_, _)
SumOver(f, S) ==
    IF S = {} THEN 0
    ELSE LET p == CHOOSE q \in S : TRUE IN f[p] + SumOver(f, S \ {p})

\* the sum of the elements and of their squares, of an integer array
SumElements(a) ==
    IF IsUniform(a) THEN FillValue(a) * Size(a.shape)
    ELSE SumOver(a.values, DOMAIN a.values)
SumSquares(a) ==
    IF IsUniform(a) THEN FillValue(a) * FillValue(a) * Size(a.shape)
    ELSE SumOver([p \in DOMAIN a.values |-> a.values[p] * a.values[p]],
                 DOMAIN a.values)

\* np.mean, and the population variance np.std is the square root of
Mean(a) == Float(SumElements(a), Size(a.shape))
Variance(a) ==
    Float(Size(a.shape) * SumSquares(a) - SumElements(a) * SumElements(a),
          Size(a.shape) * Size(a.shape))

\* the largest r in lo..hi with r * r <= n, given lo * lo <= n
RECURSIVE SqrtFloor(_, _, _)
SqrtFloor(n, lo, hi) ==
    IF lo = hi THEN lo
    ELSE LET mid == (lo + hi + 1) \div 2
         IN  IF mid * mid <= n THEN SqrtFloor(n, mid, hi)
             ELSE SqrtFloor(n, lo, mid - 1)

IsSquare(n) == SqrtFloor(n, 0, n) * SqrtFloor(n, 0, n) = n
\* the square root of a fraction q >= 0: a fraction when q is the square of
\* one, and otherwise the surd <<n, d, 2>>
FloatSqrt(q) ==
    IF IsSquare(q[1]) /\ IsSquare(q[2])
    THEN Float(SqrtFloor(q[1], 0, q[1]), SqrtFloor(q[2], 0, q[2]))
    ELSE <<q[1], q[2], 2>>

\* the k-th smallest element, k in 1..size
KthSmallest(a, k) ==
    IF IsUniform(a) THEN FillValue(a)
    ELSE CHOOSE v \in Elements(a) :
            /\ Cardinality({p \in DOMAIN a.values : a.values[p] < v}) < k
            /\ k <= Cardinality({p \in DOMAIN a.values : a.values[p] <= v})

\* np.median: the middle element, or the mean of the two middle elements
Median(a) ==
    LET n == Size(a.shape)
    IN  Float(KthSmallest(a, (n + 1) \div 2) + KthSmallest(a, (n \div 2) + 1), 2)

\* lines 215-221, for a non-empty integer array
RoiStats(roi) ==
    <<Mean(roi), FloatSqrt(Variance(roi)), FloatOfInt(ArrayMin(roi)),
      FloatOfInt(ArrayMax(roi)), Median(roi)>>

update_roi_stats(s) ==
    IF IsNone(s.current_stack) \/ IsNone(s.roi_source) THEN s
    ELSE LET stack == Get(s.current_stack)
             c == ClampedRect(stack, Get(s.roi_source))
         IN  IF ~IndexInRange(stack, s.frame_slider.value)
             THEN [s EXCEPT !.uncaught = "IndexError"]
             ELSE LET roi == ExtractRoi(Index(stack, s.frame_slider.value), c)
                  IN  IF Size(roi.shape) = 0
                      \* np.min of a zero-size array
                      THEN [s EXCEPT !.uncaught = "ValueError"]
                      ELSE [s EXCEPT !.roi_stats_source = RoiStats(roi)]

\* update_roi without the test of self.roi_toggle.active
update_roi_NoToggleGuard(s, geometry) ==
    IF IsNone(geometry) THEN s
    ELSE LET g == Get(geometry)
             s1 == [s EXCEPT
                      !.roi_box.edges = Some([left |-> g.x0, right |-> g.x1,
                                              bottom |-> g.y0, top |-> g.y1]),
                      !.roi_source = Some([x |-> g.x0, y |-> g.y0,
                                           width |-> FloatSub(g.x1, g.x0),
                                           height |-> FloatSub(g.y1, g.y0)])]
             s2 == update_roi_view(s1)
         IN  IF s2.uncaught # "none" THEN s2 ELSE update_roi_stats(s2)

\* geometry is the event's geometry, None when its x0 is None
update_roi(s, geometry) ==
    IF ~s.roi_toggle THEN s
    ELSE IF IsNone(geometry) THEN s
    ELSE LET g == Get(geometry)
             s1 == [s EXCEPT
                      !.roi_box.edges = Some([left |-> g.x0, right |-> g.x1,
                                              bottom |-> g.y0, top |-> g.y1]),
                      !.roi_source = Some([x |-> g.x0, y |-> g.y0,
                                           width |-> FloatSub(g.x1, g.x0),
                                           height |-> FloatSub(g.y1, g.y0)])]
             s2 == update_roi_view(s1)
         IN  IF s2.uncaught # "none" THEN s2 ELSE update_roi_stats(s2)

(***************************************************************************)
(* The session: __init__ and the events the server dispatches.             *)
(***************************************************************************)
\* the frame indices a frame-change event carries
FrameInputs == (-1)..MaxFrames

\* the contrast values, in tenths, a contrast-change event carries
ContrastInputs == {0, 10, 20}

\* a box selection from (x0, y0) to (x1, y1), in data coordinates
Box(x0, x1, y0, y1) == Some([x0 |-> x0, x1 |-> x1, y0 |-> y0, y1 |-> y1])

\* the geometries a selection event carries
RoiInputs ==
    {None,
     Box(<<0, 1>>, <<2, 1>>, <<0, 1>>, <<1, 1>>),
     Box(<<-10, 1>>, <<40, 1>>, <<90, 1>>, <<140, 1>>),
     Box(<<200, 1>>, <<210, 1>>, <<0, 1>>, <<1, 1>>),
     Box(<<1, 2>>, <<5, 2>>, <<0, 1>>, <<2, 1>>)}

\* the fields as the setup methods of __init__ leave them (lines 19-30)
Constructed ==
    [current_stack |-> None, metadata |-> << >>,
     image_source |-> [image |-> << >>, dw |-> << >>, dh |-> << >>],
     roi_source |-> None,
     roi_stats_source |-> <<FloatOfInt(0), FloatOfInt(0), FloatOfInt(0),
                            FloatOfInt(0), FloatOfInt(0)>>,
     roi_view_source |-> None,
     roi_box |-> [visible |-> FALSE, edges |-> None],
     roi_toggle |-> FALSE, active_drag |-> "auto",
     frame_slider |-> [start |-> 0, end |-> 1, value |-> 0, visible |-> TRUE],
     contrast_slider |-> 10, file_input |-> EmptyPayload,
     metadata_div |-> NoFileLoaded, roi_locals |-> None, uncaught |-> "none"]

Commit(t) ==
    /\ current_stack' = t.current_stack
    /\ metadata' = t.metadata
    /\ image_source' = t.image_source
    /\ roi_source' = t.roi_source
    /\ roi_stats_source' = t.roi_stats_source
    /\ roi_view_source' = t.roi_view_source
    /\ roi_box' = t.roi_box
    /\ roi_toggle' = t.roi_toggle
    /\ active_drag' = t.active_drag
    /\ frame_slider' = t.frame_slider
    /\ contrast_slider' = t.contrast_slider
    /\ file_input' = t.file_input
    /\ metadata_div' = t.metadata_div
    /\ roi_locals' = t.roi_locals
    /\ uncaught' = t.uncaught

\* __init__ ends by displaying the empty image (line 33)
Init ==
    LET t == update_image_source(Constructed, empty_image)
    IN  /\ current_stack = t.current_stack
        /\ metadata = t.metadata
        /\ image_source = t.image_source
        /\ roi_source = t.roi_source
        /\ roi_stats_source = t.roi_stats_source
        /\ roi_view_source = t.roi_view_source
        /\ roi_box = t.roi_box
        /\ roi_toggle = t.roi_toggle
        /\ active_drag = t.active_drag
        /\ frame_slider = t.frame_slider
        /\ contrast_slider = t.contrast_slider
        /\ file_input = t.file_input
        /\ metadata_div = t.metadata_div
        /\ roi_locals = t.roi_locals
        /\ uncaught = t.uncaught

\* the FileInput's value changes to new
Upload(new) ==
    /\ new # file_input
    /\ Commit(handle_file_upload([State EXCEPT !.file_input = new], new))

\* the frame slider's value changes to new
FrameChange(new) ==
    /\ new # frame_slider.value
    /\ Commit(update_frame([State EXCEPT !.frame_slider.value = new], new))

\* the contrast slider's value changes to new
ContrastChange(new) ==
    /\ new # contrast_slider
    /\ Commit(update_contrast([State EXCEPT !.contrast_slider = new], new))

\* the ROI toggle is clicked
ToggleRoi ==
    /\ roi_toggle \in BOOLEAN
    /\ Commit(toggle_roi([State EXCEPT !.roi_toggle = ~roi_toggle], ~roi_toggle))

\* a box is selected on the main plot: the selection events are taken to
\* reach update_roi, as line 267 wires them
SelectRoi(geometry) ==
    /\ geometry \in RoiInputs
    /\ Commit(update_roi(State, geometry))

Next ==
    \/ \E new \in Payloads : Upload(new)
    \/ \E new \in FrameInputs : FrameChange(new)
    \/ \E new \in ContrastInputs : ContrastChange(new)
    \/ ToggleRoi
    \/ \E geometry \in RoiInputs : SelectRoi(geometry)

Spec == Init /\ [][Next]_vars

(***************************************************************************)
(* Properties.                                                             *)
(***************************************************************************)
StackLoaded == ~IsNone(current_stack)
FrameCount == IF StackLoaded THEN PyLen(Get(current_stack)) ELSE 0

\* whether an upload of the payload yields a stack: it parses as a TIFF and
\* its array has rank 2 or 3
DecodeSucceeds(new) == Parses(new) /\ Ndim(DecodedArray(new)) \in {2, 3}

\* the session shows nothing of any upload
EmptyState ==
    /\ IsNone(current_stack)
    /\ DOMAIN metadata = {}
    /\ image_source = [image |-> Full("float64", <<EmptyDim, EmptyDim>>, <<0, 1>>),
                       dw |-> EmptyDim, dh |-> EmptyDim]
    /\ ~frame_slider.visible
    /\ metadata_div.kind = "No file loaded"

\* C1: every callback runs to completion: no exception leaves the callback
\* that an event was dispatched to.
C1_NoUncaughtException == uncaught = "none"

\* C2: an upload whose decode fails (bad base64, no TIFF, an array of rank
\* other than 2 or 3) leaves the session in the empty state, from NoStack
\* and from StackLoaded alike.
C2_FailedUploadResets ==
    [][\A new \in Payloads :
          (/\ new # EmptyPayload /\ ~DecodeSucceeds(new)
           /\ file_input' = new /\ Upload(new))
              => EmptyState']_vars

\* a rank-4 upload has failed in a session that had shown a stack and sliced
\* a ROI from it, and the session is in the empty state
C2_Witness ==
    /\ file_input = DataUri(B64(Tiff(Rank4, PageTags(2, 3))))
    /\ ~IsNone(roi_locals)
    /\ EmptyState

\* C3: whenever a stack is loaded, the frame slider's value is an index of
\* the stack: an integer in [0, frameCount-1].
C3_FrameIndexInRange ==
    StackLoaded => frame_slider.value \in 0..(FrameCount - 1)

\* C4: a contrast of 0 never reaches the division 1/g: the contrast handler
\* never raises ZeroDivisionError.
C4_ZeroContrastGuarded == uncaught # "ZeroDivisionError"

IsIntegral(q) == q[2] = 1

\* the rectangle from (x, y) of the given width and height cut to the frame
\* h x w: its intersection with [0, w] x [0, h]
ClipToFrame(r, h, w) ==
    LET left   == IF r.x[1] < 0 THEN 0 ELSE r.x[1]
        bottom == IF r.y[1] < 0 THEN 0 ELSE r.y[1]
        right  == IF r.x[1] + r.width[1] > w THEN w ELSE r.x[1] + r.width[1]
        top    == IF r.y[1] + r.height[1] > h THEN h ELSE r.y[1] + r.height[1]
    IN  [x0 |-> left, y0 |-> bottom, width |-> right - left,
         height |-> top - bottom]

\* the rectangle a selection event asks for
Requested(geometry) ==
    [x |-> Get(geometry).x0, y |-> Get(geometry).y0,
     width |-> FloatSub(Get(geometry).x1, Get(geometry).x0),
     height |-> FloatSub(Get(geometry).y1, Get(geometry).y0)]

\* a selection event that reaches the extraction of the ROI
SlicesRoi(geometry) ==
    /\ roi_toggle /\ ~IsNone(geometry)
    /\ StackLoaded /\ frame_slider.value \in 0..(FrameCount - 1)
    /\ SelectRoi(geometry)

\* C5: the rectangle a frame is sliced with is the requested rectangle cut to
\* the frame; for a 100 x 100 frame and the request (-10, 90, 50, 50) it is
\* (0, 90, 40, 10).
C5_EffectiveRectIsClipped ==
    [][\A geometry \in RoiInputs :
          (/\ ~IsNone(geometry)
           /\ \A k \in {"x", "y", "width", "height"} :
                 IsIntegral(Requested(geometry)[k])
           /\ SlicesRoi(geometry))
          => LET l == Get(roi_locals')
                 c == ClipToFrame(Requested(geometry),
                                  Get(current_stack).shape[2],
                                  Get(current_stack).shape[3])
             IN  /\ [x0 |-> l.x0, y0 |-> l.y0, width |-> l.width,
                     height |-> l.height] = c
                 /\ (/\ Get(current_stack).shape = <<1, 100, 100>>
                     /\ geometry = Box(<<-10, 1>>, <<40, 1>>, <<90, 1>>, <<140, 1>>))
                    => c = [x0 |-> 0, y0 |-> 90, width |-> 40, height |-> 10]]_vars

\* C6: a selection whose clamped rectangle has width <= 0 or height <= 0
\* changes neither the ROI statistics nor the ROI view and raises nothing.
C6_DegenerateRoiIsNoOp ==
    [][\A geometry \in RoiInputs :
          (/\ roi_toggle /\ ~IsNone(geometry) /\ StackLoaded
           /\ LET c == ClampedRect(Get(current_stack), Requested(geometry))
              IN  c.width <= 0 \/ c.height <= 0
           /\ SelectRoi(geometry))
          => /\ roi_stats_source' = roi_stats_source
             /\ roi_view_source' = roi_view_source
             /\ uncaught' = "none"]_vars

\* C7: the frame slider is hidden whenever there are at most one frame, and
\* when it is visible its range is [0, frameCount-1].
C7_FrameControlMatchesStack ==
    /\ FrameCount <= 1 => ~frame_slider.visible
    /\ frame_slider.visible =>
          frame_slider.start = 0 /\ frame_slider.end = FrameCount - 1

\* C8: with a stack loaded and a ROI set, the ROI statistics are the
\* aggregates of the ROI cut from the frame the slider shows.
C8_RoiStatsAreCurrent ==
    (/\ StackLoaded
     /\ ~IsNone(roi_source)
     /\ frame_slider.value \in 0..(FrameCount - 1)
     /\ Size(ExtractRoi(Index(Get(current_stack), frame_slider.value),
                        ClampedRect(Get(current_stack), Get(roi_source))).shape) > 0)
    => roi_stats_source =
          RoiStats(ExtractRoi(Index(Get(current_stack), frame_slider.value),
                              ClampedRect(Get(current_stack), Get(roi_source))))

\* C9: a frame change to an index outside [0, frameCount-1] of the loaded
\* stack leaves the display, the stack, the metadata and the ROI state as
\* they were, and no exception leaves the callback.
C9_InvalidFrameIndexIgnored ==
    [][\A new \in FrameInputs :
          (/\ StackLoaded
           /\ new \notin 0..(FrameCount - 1)
           /\ FrameChange(new))
          => /\ UNCHANGED <<image_source, current_stack, metadata, metadata_div,
                            roi_source, roi_stats_source, roi_view_source,
                            roi_box, roi_toggle>>
             /\ uncaught' = "none"]_vars

\* the slider of a loaded multi-frame stack holds -1 (an upload of such a
\* stack sets it to 0, so the change to -1 came with this stack loaded),
\* and the display still shows a frame of the stack
C9_Witness ==
    /\ StackLoaded /\ FrameCount > 1
    /\ frame_slider.value = -1
    /\ image_source.dw = 3 /\ image_source.dh = 2
    /\ uncaught = "none"

\* C10: the session starts without a stack; a stack appears only by an
\* upload that decodes, disappears only by an upload that fails to decode,
\* and no other event (an upload of the empty payload included) changes
\* whether a stack is loaded.
C10_StackLifecycle ==
    /\ IsNone(current_stack)
    /\ [][/\ (~StackLoaded /\ StackLoaded')
                => \E new \in Payloads : DecodeSucceeds(new) /\ Upload(new)
          /\ (StackLoaded /\ ~StackLoaded')
                => \E new \in Payloads :
                      new # EmptyPayload /\ ~DecodeSucceeds(new) /\ Upload(new)
          /\ (StackLoaded' # StackLoaded)
                => ~(\/ \E new \in FrameInputs : FrameChange(new)
                     \/ \E new \in ContrastInputs : ContrastChange(new)
                     \/ ToggleRoi
                     \/ \E geometry \in RoiInputs : SelectRoi(geometry)
                     \/ Upload(EmptyPayload))]_vars

\* a stack was loaded and sliced, an upload failed, and the empty payload
\* that followed left the session without a stack
C10_Witness ==
    /\ ~StackLoaded
    /\ ~IsNone(roi_locals)
    /\ file_input = EmptyPayload

\* the three derived entries of the table describe the stack: its sample
\* type, the least and greatest sample of the whole stack, and its shape
\* (for a stack of one frame, the shape of the stack or of the image it was
\* made of)
DescribesStack(md, stack) ==
    /\ {"Dimensions", "Data Type", "Value Range"} \subseteq DOMAIN md
    /\ md["Data Type"] = <<"dtype", stack.dtype>>
    /\ md["Value Range"] = <<"range", <<ArrayMin(stack), ArrayMax(stack)>>>>
    /\ \/ md["Dimensions"] = <<"shape", stack.shape>>
       \/ /\ PyLen(stack) = 1
          /\ md["Dimensions"] = <<"shape", Tail(stack.shape)>>

\* C11: the metadata table is empty exactly when no stack is loaded, and
\* when a stack is loaded it holds Dimensions, Data Type and Value Range of
\* that stack.
C11_MetadataLifecycle ==
    /\ IsNone(current_stack) <=> DOMAIN metadata = {}
    /\ StackLoaded => DescribesStack(metadata, Get(current_stack))

\* the 2 x 3 image is loaded in a session that had sliced a ROI from the
\* 100 x 100 image before, and the table describes the 2 x 3 image
C11_Witness ==
    /\ StackLoaded
    /\ Get(current_stack) = WrapSingle(ImageA)
    /\ roi_locals = Some([x0 |-> 0, y0 |-> 90, width |-> 50, height |-> 10])
    /\ metadata["Dimensions"] = <<"shape", <<2, 3>>>>
    /\ metadata["Value Range"] = <<"range", <<0, 4>>>>

\* out is a normalization of the integer frame: every value lies in [0, 1],
\* the least samples are at 0 and the greatest at 1
IsNormalizationOf(out, frame) ==
    /\ out.shape = frame.shape
    /\ \A v \in Elements(out) :
          FloatLe(FloatOfInt(0), v) /\ FloatLe(v, FloatOfInt(1))
    /\ \A p \in Indices(frame.shape) :
          /\ At(frame, p) = ArrayMin(frame) => At(out, p) = FloatOfInt(0)
          /\ At(frame, p) = ArrayMax(frame) => At(out, p) = FloatOfInt(1)

\* the event displays frame k of the stack loaded after it
Displays(k) ==
    \/ /\ k = 0
       /\ \E new \in Payloads :
             DecodeSucceeds(new) /\ file_input' = new /\ Upload(new)
    \/ /\ StackLoaded /\ k \in 0..(FrameCount - 1)
       /\ frame_slider'.value = k
       /\ FrameChange(k)

\* C12: when an upload or a frame change displays a frame of integer samples
\* with max > min, signed or unsigned, every displayed value lies in [0, 1],
\* the least sample is shown as 0 and the greatest as 1.
C12_NormalizedIntoUnitInterval ==
    [][\A k \in 0..(MaxFrames - 1) :
          (/\ ~IsNone(current_stack')
           /\ k < PyLen(Get(current_stack'))
           /\ ArrayMax(Index(Get(current_stack'), k))
                 > ArrayMin(Index(Get(current_stack'), k))
           /\ Displays(k))
          => IsNormalizationOf(image_source'.image,
                               Index(Get(current_stack'), k))]_vars

\* C13: an upload that decodes replaces the stack by the decoded one: an
\* image (H, W) becomes a stack of the single frame (H, W), an array of rank
\* 3 is the stack, frames along its first axis; and the display shows the
\* normalization of frame 0 of the new stack.
C13_UploadReplacesStack ==
    [][\A new \in Payloads :
          (DecodeSucceeds(new) /\ file_input' = new /\ Upload(new))
          => LET a == DecodedArray(new)
                 stack == Get(current_stack')
             IN  /\ ~IsNone(current_stack')
                 /\ Ndim(a) = 2 =>
                       /\ stack.shape = <<1>> \o a.shape
                       /\ stack.dtype = a.dtype
                       /\ Index(stack, 0) = a
                 /\ Ndim(a) = 3 => stack = a
                 /\ image_source' =
                       [image |-> Normalize(Index(stack, 0)),
                        dw |-> stack.shape[3], dh |-> stack.shape[2]]]_vars

\* the stack of int8 frames is loaded in a session that had sliced a ROI
\* from the 100 x 100 image before and had moved the contrast slider, and
\* the display shows a 2 x 3 frame
C13_Witness ==
    /\ StackLoaded
    /\ Get(current_stack) = StackB(2)
    /\ roi_locals = Some([x0 |-> 0, y0 |-> 90, width |-> 50, height |-> 10])
    /\ contrast_slider = 20
    /\ file_input = DataUri(B64(Tiff(StackB(2), PageTags(2, 3))))
    /\ image_source.image = Normalize(Index(StackB(2), 0))

\* all the samples of the frame are equal
AllSamplesEqual(frame) == Cardinality(Elements(frame)) = 1

\* the display shows zeros in the shape of the frame
ShowsZerosOf(src, frame) ==
    /\ src.image.shape = frame.shape
    /\ Elements(src.image) = {FloatOfInt(0)}
    /\ src.dw = frame.shape[2]
    /\ src.dh = frame.shape[1]

\* C14: a frame whose samples are all equal is displayed as zeros of its
\* shape, with its width and height, and nothing is raised: the placeholder
\* at the start of the session and after a failed upload, and a uniform
\* frame of a stack after an upload, a frame change or a contrast change.
C14_UniformFrameShowsZeros ==
    /\ ShowsZerosOf(image_source, empty_image)
    /\ [][/\ \A new \in Payloads :
                (/\ new # EmptyPayload /\ ~DecodeSucceeds(new)
                 /\ file_input' = new /\ Upload(new))
                => ShowsZerosOf(image_source', empty_image) /\ uncaught' = "none"
          /\ \A k \in 0..(MaxFrames - 1) :
                (/\ ~IsNone(current_stack')
                 /\ k < PyLen(Get(current_stack'))
                 /\ AllSamplesEqual(Index(Get(current_stack'), k))
                 /\ \/ Displays(k)
                    \/ /\ StackLoaded /\ frame_slider.value = k
                       /\ \E new \in ContrastInputs \ {0} :
                             contrast_slider' = new /\ ContrastChange(new))
                => /\ ShowsZerosOf(image_source', Index(Get(current_stack'), k))
                   /\ uncaught' = "none"]_vars

\* the 100 x 100 image of one value is loaded and shown as zeros, in a
\* session whose contrast slider is at 2
C14_Witness ==
    /\ StackLoaded
    /\ Get(current_stack) = WrapSingle(ImageC)
    /\ contrast_slider = 20
    /\ frame_slider.value = 0
    /\ ShowsZerosOf(image_source, ImageC)

\* C15: a contrast change to g > 0 with a stack loaded displays the
\* normalization of the power 1/g of the raw frame at the frame slider's
\* index, an index of the stack; with no stack loaded it changes nothing but
\* the slider's own value.
C15_ContrastOnRawFrame ==
    [][\A new \in ContrastInputs \ {0} :
          (contrast_slider' = new /\ ContrastChange(new))
          => IF StackLoaded
             THEN /\ frame_slider.value \in 0..(FrameCount - 1)
                  /\ image_source'.image =
                        Normalize(Power(Index(Get(current_stack),
                                              frame_slider.value), new))
             ELSE UNCHANGED <<current_stack, metadata, image_source,
                              roi_source, roi_stats_source, roi_view_source,
                              roi_box, roi_toggle, active_drag, frame_slider,
                              file_input, metadata_div, roi_locals, uncaught>>]_vars

\* C16: with a stack loaded, the display is the normalization of the power
\* 1/g of the frame at the frame slider's index, for the contrast slider's
\* g, whichever event came last; for g = 1 the power is the frame itself.
C16_DisplayMatchesControls ==
    (/\ StackLoaded
     /\ frame_slider.value \in 0..(FrameCount - 1)
     /\ contrast_slider > 0)
    => LET frame == Index(Get(current_stack), frame_slider.value)
       IN  \/ image_source.image = Normalize(Power(frame, contrast_slider))
           \/ contrast_slider = 10 /\ image_source.image = Normalize(frame)

\* C17: a selection received while ROI mode is off, or whose geometry has
\* no x0, changes neither the ROI rectangle, nor the ROI box, nor the ROI
\* view, nor the ROI statistics, and raises nothing; and the ROI box is
\* visible exactly when ROI mode is on.
C17_SelectionNeedsRoiMode ==
    /\ [](roi_box.visible <=> roi_toggle)
    /\ [][\A geometry \in RoiInputs :
             (/\ ~roi_toggle \/ IsNone(geometry)
              /\ SelectRoi(geometry))
             => /\ UNCHANGED <<roi_source, roi_box, roi_view_source,
                               roi_stats_source, roi_locals, roi_toggle>>
                /\ uncaught' = "none"]_vars

\* ROI mode is off and the box hidden in a session that holds the ROI
\* selected from the 2 x 3 image while the mode was on
C17_Witness ==
    /\ ~roi_toggle /\ ~roi_box.visible
    /\ active_drag = "None"
    /\ StackLoaded
    /\ roi_source = Some([x |-> <<0, 1>>, y |-> <<0, 1>>,
                          width |-> <<2, 1>>, height |-> <<1, 1>>])
    /\ roi_box.edges # None
    /\ uncaught = "none"

\* C18: frame changes, contrast changes, ROI toggles and ROI selections
\* leave the samples of the stack and the metadata table as the last upload
\* left them: a step that changes either is an upload of a payload, and none
\* of the other events.
C18_OnlyUploadWritesData ==
    [][(current_stack' # current_stack \/ metadata' # metadata)
          => /\ \E new \in Payloads \ {EmptyPayload} :
                   file_input' = new /\ Upload(new)
             /\ ~(\/ \E new \in FrameInputs : FrameChange(new)
                  \/ \E new \in ContrastInputs : ContrastChange(new)
                  \/ ToggleRoi
                  \/ \E geometry \in RoiInputs : SelectRoi(geometry))]_vars

\* the stack of int8 frames and its table are as the upload left them after
\* a frame change to frame 1, a contrast change to 2, a toggle and a
\* selection that sliced a ROI
C18_Witness ==
    /\ file_input = DataUri(B64(Tiff(StackB(2), PageTags(2, 3))))
    /\ current_stack = Some(StackB(2))
    /\ metadata["Value Range"] = <<"range", <<-100, 100>>>>
    /\ metadata["Dimensions"] = <<"shape", <<2, 2, 3>>>>
    /\ frame_slider.value = 1
    /\ contrast_slider = 20
    /\ roi_toggle
    /\ roi_locals = Some([x0 |-> 0, y0 |-> 0, width |-> 2, height |-> 1])

====
